---- MODULE Spec2Model ----
(***************************************************************************)
(* The btrace interposition shim (libbtrace): exec wrappers that append    *)
(* one record per intercepted exec call to a shared, fcntl-locked log.     *)
(*                                                                         *)
(* C strings are sequences of one-character strings without the NUL        *)
(* terminator; the terminator is the position Len(s)+1.  A NULL char*      *)
(* is the value NULL, a NULL char** is the empty tuple (a real argument    *)
(* vector always holds at least its NULL terminator).                      *)
(***************************************************************************)
EXTENDS Integers, Sequences, FiniteSets, TLC

VARIABLES
    escText, escOut,            \* writeEscapedString: input string, output bytes
    recIn, recOut,              \* logExecution as a byte producer: inputs, bytes
    linkLen, linkBufSize,       \* writeSymLinkTarget: target length, bufSize,
    linkState, linkWrote,       \*   "loop" | "done" | "abort", bytes of the target written
    statIn, statOut,            \* writePid: the bytes read() left in the buffer, the outcome
    envVar, initName,           \* _init: the value of BTRACE_LOG, g_logFileName after it
    numIn, numStr, numBack,     \* uint64ToString / stringToUint64: value, digits, value read back
    argvA, argvB, lineA, lineB, \* the argument loop of logExecution: two vectors, their lines
    g_logFileName,              \* per process: the log path _init left (<<>> = disabled)
    prog,                       \* per thread: the exec calls the host program still makes
    th,                         \* per thread: the frame of the intercepted call
    pstate,                     \* per process: "run" | "aborted" | "execed"
    diag,                       \* per process: a diagnostic was written to stderr
    logFile, logExists,         \* the log file: its bytes (with their writer), created
    lock,                       \* the process holding the fcntl write lock, 0 = none
    fds                         \* threads that hold an open descriptor of the log file

escVars == <<escText, escOut>>
recVars == <<recIn, recOut>>
linkVars == <<linkLen, linkBufSize, linkState, linkWrote>>
shimVars == <<g_logFileName, prog, th, pstate, diag,
              logFile, logExists, lock, fds>>
statVars == <<statIn, statOut>>
initVars == <<envVar, initName>>
numVars == <<numIn, numStr, numBack>>
argVars == <<argvA, argvB, lineA, lineB>>
vars == <<escVars, recVars, linkVars, statVars, initVars, numVars, argVars, shimVars>>

\* ------------------------------------------------------------------------
\* Values
\* ------------------------------------------------------------------------

NUL == "NUL"
NULL == <<"NULL">>
NullArgv == <<>>
None == <<"none">>

Min(a, b) == IF a < b THEN a ELSE b

IdleEsc == escText = <<>> /\ escOut = None
IdleRec == recIn = None /\ recOut = None
IdleLink == linkLen = 0 /\ linkBufSize = 0 /\ linkState = "idle" /\ linkWrote = -1
NoStat == [st |-> "none"]
IdleStat == statIn = None /\ statOut = NoStat
NoInit == [st |-> "none"]
IdleInit == envVar = None /\ initName = NoInit
NoU64 == <<-1, -1, -1>>
IdleNum == numIn = NoU64 /\ numStr = None /\ numBack = NoU64
IdleArg == argvA = NullArgv /\ argvB = NullArgv /\ lineA = None /\ lineB = None

\* ------------------------------------------------------------------------
\* Safe primitives
\* ------------------------------------------------------------------------

\* s[i] for a NUL-terminated string: the terminator sits at Len(s)+1.
CharAt(s, i) == IF i = Len(s) + 1 THEN NUL ELSE s[i]

\* safeStrChr(s + (from-1), c): index of the first c at or after from, 0 = NULL.
RECURSIVE safeStrChr(_, _, _)
safeStrChr(s, from, c) ==
    LET ch == CharAt(s, from) IN
    IF ch = c THEN from
    ELSE IF ch = NUL THEN 0
    ELSE safeStrChr(s, from + 1, c)

\* safeStrRChr(s, c): index of the last c, 0 = NULL.
RECURSIVE safeStrRChrLoop(_, _, _, _)
safeStrRChrLoop(s, i, c, ret) ==
    LET ch == CharAt(s, i)
        ret2 == IF ch = c THEN i ELSE ret IN
    IF ch = NUL THEN ret2 ELSE safeStrRChrLoop(s, i + 1, c, ret2)

safeStrRChrFirst(s, c) == safeStrChr(s, 1, c)

safeStrRChr(s, c) == safeStrRChrLoop(s, 1, c, 0)

safeStrLen(str) == safeStrChr(str, 1, NUL) - 1

Digits == <<"0", "1", "2", "3", "4", "5", "6", "7", "8", "9">>

safeIsDigit(ch) == \E d \in 1..10 : Digits[d] = ch

DigitVal(ch) == (CHOOSE d \in 1..10 : Digits[d] = ch) - 1

\* The do-while of uint64ToString: digits are produced right to left.
RECURSIVE uint64ToStringLoop(_, _)
uint64ToStringLoop(val, acc) ==
    LET acc2 == <<Digits[(val % 10) + 1]>> \o acc
        val2 == val \div 10 IN
    IF val2 # 0 THEN uint64ToStringLoop(val2, acc2) ELSE acc2

uint64ToString(val) == uint64ToStringLoop(val, <<>>)

\* stringToUint64(input + (i-1)) with the accumulator temp.
RECURSIVE stringToUint64Loop(_, _, _)
stringToUint64Loop(input, i, temp) ==
    IF safeIsDigit(CharAt(input, i))
    THEN stringToUint64Loop(input, i + 1, temp * 10 + DigitVal(input[i]))
    ELSE temp

stringToUint64(input, from) == stringToUint64Loop(input, from, 0)

\* ------------------------------------------------------------------------
\* uint64_t at its full width: a value is three limbs <<a, b, c>> of eight
\* decimal digits each, a * 10^16 + b * 10^8 + c, below 2^64
\* ------------------------------------------------------------------------

LimbBase == 10^8

\* 2^64 = 18446744073709551616.
U64Modulus == <<1844, 67440737, 9551616>>

U64Zero == <<0, 0, 0>>

u64Less(x, y) ==
    \/ x[1] < y[1]
    \/ x[1] = y[1] /\ x[2] < y[2]
    \/ x[1] = y[1] /\ x[2] = y[2] /\ x[3] < y[3]

\* x - y for x >= y.
u64Minus(x, y) ==
    LET c == x[3] - y[3]
        bc == IF c < 0 THEN 1 ELSE 0
        b == x[2] - y[2] - bc
        bb == IF b < 0 THEN 1 ELSE 0 IN
    <<x[1] - y[1] - bb, b + bb * LimbBase, c + bc * LimbBase>>

\* Arithmetic on uint64_t wraps modulo 2^64.
RECURSIVE u64Wrap(_)
u64Wrap(x) == IF u64Less(x, U64Modulus) THEN x ELSE u64Wrap(u64Minus(x, U64Modulus))

\* val % 10 and val / 10.
u64Mod10(v) == v[3] % 10

u64Div10(v) ==
    <<v[1] \div 10,
      (v[1] % 10) * (LimbBase \div 10) + v[2] \div 10,
      (v[2] % 10) * (LimbBase \div 10) + v[3] \div 10>>

\* temp * 10 + d.
u64Times10Plus(v, d) ==
    LET c == v[3] * 10 + d
        b == v[2] * 10 + c \div LimbBase
        a == v[1] * 10 + b \div LimbBase IN
    u64Wrap(<<a, b % LimbBase, c % LimbBase>>)

\* uint64ToString: the do-while fills tempBuf from index 30 down.
RECURSIVE uint64ToStringLimbsLoop(_, _)
uint64ToStringLimbsLoop(val, acc) ==
    LET acc2 == <<Digits[u64Mod10(val) + 1]>> \o acc
        val2 == u64Div10(val) IN
    IF val2 # U64Zero THEN uint64ToStringLimbsLoop(val2, acc2) ELSE acc2

uint64ToStringLimbsWhile(val) ==
    IF val = U64Zero THEN <<>> ELSE uint64ToStringLimbsLoop(val, <<>>)

uint64ToStringLimbs(val) == uint64ToStringLimbsLoop(val, <<>>)

RECURSIVE stringToUint64LimbsLoop(_, _, _)
stringToUint64LimbsLoop(input, i, temp) ==
    IF safeIsDigit(CharAt(input, i))
    THEN stringToUint64LimbsLoop(input, i + 1,
                                 u64Times10Plus(temp, DigitVal(input[i])))
    ELSE temp

stringToUint64Limbs(input, from) == stringToUint64LimbsLoop(input, from, U64Zero)

\* ------------------------------------------------------------------------
\* Record text: the bytes handed to writeChar, in order
\* ------------------------------------------------------------------------

needsQuotes(text) ==
    safeStrChr(text, 1, " ") # 0 \/ safeStrChr(text, 1, "\n") # 0

RECURSIVE escapedBody(_, _)
escapedBody(text, i) ==
    IF CharAt(text, i) = NUL THEN <<>>
    ELSE LET ch == text[i] IN
         (IF ch = "\\" \/ ch = "\"" THEN <<"\\">> ELSE <<>>)
             \o <<ch>> \o escapedBody(text, i + 1)

RECURSIVE escapedBodyNoBackslash(_, _)
escapedBodyNoBackslash(text, i) ==
    IF CharAt(text, i) = NUL THEN <<>>
    ELSE LET ch == text[i] IN
         (IF ch = "\"" THEN <<"\\">> ELSE <<>>)
             \o <<ch>> \o escapedBodyNoBackslash(text, i + 1)

writeEscapedStringNoBackslash(text) ==
    LET q == IF needsQuotes(text) THEN <<"\"">> ELSE <<>> IN
    q \o escapedBodyNoBackslash(text, 1) \o q

writeEscapedString(text) ==
    LET q == IF needsQuotes(text) THEN <<"\"">> ELSE <<>> IN
    q \o escapedBody(text, 1) \o q

\* The argument loop of logExecution: a space before every argument but the
\* first, each argument escaped.
RECURSIVE argText(_, _)
argText(argv, i) ==
    IF argv[i] = NULL THEN <<>>
    ELSE (IF i > 1 THEN <<" ">> ELSE <<>>)
             \o writeEscapedString(argv[i]) \o argText(argv, i + 1)

argsText(argv) == IF argv # NullArgv THEN argText(argv, 1) ELSE <<>>

ExecLine == <<"e", "x", "e", "c", "\n">>

\* writePid, first block: the pid line.
writePidHead(pid) == uint64ToString(pid) \o <<"\n">>

\* writePid, the for loop: from field i at p to field 22; 0 = assertion failure.
RECURSIVE statAdvance(_, _, _)
statAdvance(content, p, i) ==
    IF i < 22
    THEN LET q == safeStrChr(content, p, " ") IN
         IF q = 0 THEN 0 ELSE statAdvance(content, q + 1, i + 1)
    ELSE p

\* writePid from the for loop on, p at field 3 of the string s: the failed
\* assertion, or the start time plus the boot time.
statField(s, p, boot) ==
    LET q == statAdvance(s, p, 3) IN
    IF q = 0 THEN [st |-> "no_field", val |-> 0]
    ELSE IF safeStrChr(s, q, " ") = 0
         THEN [st |-> "no_end", val |-> 0]
         ELSE [st |-> "ok", val |-> boot + stringToUint64(s, q)]

\* writePid, parsing of the bytes read from /proc/<pid>/stat.  st is "ok",
\* the failed assertion, or "wild" when p is moved past the NUL terminator
\* into bytes the read never wrote.
parseStat(content, boot) ==
    LET r == safeStrRChr(content, ")") IN
    IF r = 0 THEN [st |-> "no_paren", val |-> 0]
    ELSE IF r + 2 > Len(content) + 1 THEN [st |-> "wild", val |-> 0]
    ELSE statField(content, r + 2, boot)

\* writePid on the whole of procStatContent: content is what read() stored,
\* the terminator follows it, and after the terminator the array holds what
\* the stack held before (stale, a NUL-terminated string itself).  When p is
\* moved past the terminator the scan runs over those bytes.
writePidParse(content, stale, boot) ==
    LET res == parseStat(content, boot) IN
    IF res.st # "wild"
    THEN [st |-> res.st, val |-> res.val, beyond |-> FALSE]
    ELSE LET far == statField(stale, 1, boot) IN
         [st |-> far.st, val |-> far.val, beyond |-> TRUE]

\* writePid, last block: the start-time line.
writePidTail(val) == uint64ToString(val) \o <<"\n">>

\* attemptWriteSymLinkTarget, success branch: the cwd line.
symLinkText(buf) == writeEscapedString(buf) \o <<"\n">>

\* readlink(2): the target is silently truncated to the buffer.
readlinkAmount(targetLen, size) == Min(targetLen, size)

SymLinkFirstSize == 256
SymLinkLimit == 1048576

attemptFitsInclusive(amount, size) == amount <= size

\* attemptWriteSymLinkTarget: the test that the target fit strictly.
attemptFits(amount, size) == amount < size

\* writeSymLinkTarget: the loop condition and the doubling.
symLinkLoopCond(bufSize) == bufSize < SymLinkLimit

symLinkNextSize(bufSize) == bufSize * 2

logExecutionTailNoNewline(filename, argv) ==
    writeEscapedString(filename) \o argsText(argv) \o <<"\n">> \o <<"\n">>

\* logExecution after writeSymLinkTarget: filename line, argument line, blank.
logExecutionTail(filename, argv) ==
    writeEscapedString(filename) \o <<"\n">>
        \o argsText(argv) \o <<"\n">> \o <<"\n">>

\* ------------------------------------------------------------------------
\* The host: what /proc and the process table hold
\* ------------------------------------------------------------------------

RECURSIVE Repeat(_, _)
Repeat(s, n) == IF n = 0 THEN <<>> ELSE s \o Repeat(s, n - 1)

\* /proc/<pid>/stat: pid, (comm), state, fields 4..21, starttime, more fields.
StatContent(pid, comm, start) ==
    uint64ToString(pid) \o <<" ", "(">> \o comm \o <<")", " ", "S", " ">>
        \o Repeat(<<"0", " ">>, 18) \o uint64ToString(start) \o <<" ", "0", "\n">>

\* All bytes one logExecution call hands to writeChar when no call fails.
logExecutionText(ppStat, selfStat, boot, ppid, pid, cwd, filename, argv) ==
    ExecLine
        \o writePidHead(ppid) \o writePidTail(parseStat(ppStat, boot).val)
        \o writePidHead(pid) \o writePidTail(parseStat(selfStat, boot).val)
        \o symLinkText(cwd)
        \o logExecutionTail(filename, argv)

\* ------------------------------------------------------------------------
\* The interception surface: from the caller's call to wrap_execve/wrap_execvpe
\* ------------------------------------------------------------------------

Environ == <<"environ">>

\* ARG_COUNT: va is the variadic call's argument list from arg on.
RECURSIVE argCountLoop(_, _, _)
argCountLoop(va, i, count) ==
    IF va[i] # NULL THEN argCountLoop(va, i + 1, count + 1) ELSE count

ARG_COUNT(va) == IF va[1] # NULL THEN argCountLoop(va, 2, 1) ELSE 0

variadicArgvNoWalk(va, count) ==
    [i \in 1..(count + 1) |-> IF i = count + 1 THEN NULL ELSE va[1]]

\* execl, execlp, execle: the alloca'd vector of count + 1 slots.
variadicArgv(va, count) ==
    IF va[1] # NULL
    THEN [i \in 1..(count + 1) |-> IF i = count + 1 THEN NULL ELSE va[i]]
    ELSE [i \in 1..(count + 1) |-> NULL]

execleEnvpAtCount(va, count) == va[count + 1]

\* execle: the va_arg that follows the walk over the arguments.
execleEnvp(va, count) ==
    IF va[1] # NULL THEN va[count + 2] ELSE va[2]

\* The entry points: which wrapper is called, and with what.
EntryPoint(c) ==
    LET count == ARG_COUNT(c.args) IN
    CASE c.fn = "execv" ->
            [real |-> "execve", path |-> c.path, argv |-> c.args, envp |-> Environ]
      [] c.fn = "execvp" ->
            [real |-> "execvpe", path |-> c.path, argv |-> c.args, envp |-> Environ]
      [] c.fn = "execve" ->
            [real |-> "execve", path |-> c.path, argv |-> c.args, envp |-> c.envp]
      [] c.fn = "execvpe" ->
            [real |-> "execvpe", path |-> c.path, argv |-> c.args, envp |-> c.envp]
      [] c.fn = "execl" ->
            [real |-> "execve", path |-> c.path,
             argv |-> variadicArgv(c.args, count), envp |-> Environ]
      [] c.fn = "execlp" ->
            [real |-> "execvpe", path |-> c.path,
             argv |-> variadicArgv(c.args, count), envp |-> Environ]
      [] c.fn = "execle" ->
            [real |-> "execve", path |-> c.path,
             argv |-> variadicArgv(c.args, count),
             envp |-> execleEnvp(c.args, count)]

\* ------------------------------------------------------------------------
\* The host the shim runs in
\* ------------------------------------------------------------------------

MaxCalls == 2
BufSize == 21

\* Two host processes: threads 1 and 2 run in the first, thread 3 in the second.
Threads == {1, 2, 3}
Procs == {1, 2}
ProcOf == <<1, 1, 2>>

LogPath == <<"/", "t">>
HostPpid == 1
BootJiffies == 5

getpid(p) == p + 1
Cwd(p) == <<"/", "w">>
ProcStat(pid) ==
    IF pid = HostPpid
    THEN StatContent(pid, <<"s", "h">>, 3)
    ELSE StatContent(pid, <<"a", ")", " ", "b">>, 4)

\* What writePid makes of the stat file of each process the sessions look at.
HostPids == {HostPpid} \cup {getpid(p) : p \in Procs}
ParsedStat == [pid \in HostPids |-> parseStat(ProcStat(pid), BootJiffies)]

FdOf(t) == 2 + t

ThreadsOf(p) == {t \in Threads : ProcOf[t] = p}

Env1 == <<"env1">>
ArgA == <<"x">>
ArgB == <<"a", " ">>
ExecPath == <<"x">>

VecArgs == {NullArgv, <<NULL>>, <<ArgA, ArgB, NULL>>}
VaArgs == {<<NULL>>, <<ArgA, NULL>>, <<ArgA, ArgB, NULL>>}

AllCalls ==
    [fn : {"execve", "execvpe"}, path : {ExecPath}, args : VecArgs, envp : {Env1}]
    \cup [fn : {"execv", "execvp"}, path : {ExecPath}, args : VecArgs, envp : {None}]
    \cup [fn : {"execl", "execlp"}, path : {ExecPath}, args : VaArgs, envp : {None}]
    \cup [fn : {"execle"}, path : {ExecPath},
          args : {v \o <<Env1>> : v \in VaArgs}, envp : {None}]

FewCalls ==
    {[fn |-> "execve", path |-> ExecPath, args |-> <<ArgA, ArgB, NULL>>,
      envp |-> Env1]}

\* ------------------------------------------------------------------------
\* The log file session
\* ------------------------------------------------------------------------

NoLogFile == [fd |-> 0, buf |-> <<>>, bufCount |-> 0]

logExecutionNeverSkips(name) == FALSE

\* logExecution: the test that makes it return at once.
logExecutionSkips(name) == CharAt(name, 1) = NUL

openLogFileLockShared == "F_RDLCK"

\* openLogFile: the l_type of the lock it asks for.
openLogFileLock == "F_WRLCK"

LockGrantedOwnOnly(type, holder, p) == holder = p

\* fcntl(F_SETLKW) of process p when holder holds the write lock: a lock is
\* owned by the process, so a process never conflicts with itself.
LockGranted(type, holder, p) == holder \in {0, p} \/ type = "F_RDLCK"

closeLogFileStepsUnlockFirst == <<"unlock", "flush", "close">>

\* closeLogFile: the order of its three steps.
closeLogFileSteps == <<"flush", "unlock", "close">>

\* writeChar when the buffer has room.
writeChar(l, ch) ==
    [l EXCEPT !.buf = Append(@, ch), !.bufCount = @ + 1]

RECURSIVE writeCharsLate(_, _)
writeCharsLate(l, text) ==
    IF text = <<>> \/ l.bufCount = BufSize + 1
    THEN [lf |-> l, rest |-> text]
    ELSE writeCharsLate(writeChar(l, Head(text)), Tail(text))

RECURSIVE writeCharsEarly(_, _)
writeCharsEarly(l, text) ==
    IF text = <<>> \/ l.bufCount = BufSize - 1
    THEN [lf |-> l, rest |-> text]
    ELSE writeCharsEarly(writeChar(l, Head(text)), Tail(text))

\* writeChar over the bytes of text, up to the first one that finds the
\* buffer full and has to call flushLogFile.
RECURSIVE writeChars(_, _)
writeChars(l, text) ==
    IF text = <<>> \/ l.bufCount = BufSize
    THEN [lf |-> l, rest |-> text]
    ELSE writeChars(writeChar(l, Head(text)), Tail(text))

\* No call, no marshalled arguments, no result yet.
NoCall == [fn |-> "none"]

IdleThread ==
    [pc |-> "idle", call |-> NoCall, w |-> NoCall, lf |-> NoLogFile,
     pending |-> <<>>, pid |-> 0, bufSize |-> 0, cstep |-> 0, errno |-> "0",
     hist |-> <<>>, real |-> NoCall, result |-> NoCall, writer |-> 0]

DeadThread == [IdleThread EXCEPT !.pc = "dead"]

InSession(t) ==
    th[t].pc \in {"lock", "stat_open", "stat_read", "readlink", "closeLogFile"}

Running(t) == pstate[ProcOf[t]] = "run"

\* The frame of thread t after writeChar was run over text.
Written(r, text) ==
    LET res == writeChars(r.lf, text) IN
    [r EXCEPT !.lf = res.lf, !.pending = res.rest]

Tagged(bytes, t) == [i \in 1..Len(bytes) |-> [ch |-> bytes[i], by |-> t]]

\* Thread t goes on with frame r; nothing else of its process changes.
Goes(t, r) ==
    /\ th' = [th EXCEPT ![t] = r]
    /\ UNCHANGED <<pstate, diag, escVars, recVars, linkVars, statVars, initVars, numVars, argVars>>

\* The process of thread t ends (abort() or a successful exec): the kernel
\* closes its descriptors and drops its lock; its other threads are gone.
Ends(t, r, how) ==
    LET p == ProcOf[t] IN
    /\ th' = [u \in Threads |->
                 IF u = t THEN r
                 ELSE IF ProcOf[u] = p THEN DeadThread ELSE th[u]]
    /\ pstate' = [pstate EXCEPT ![p] = how]
    /\ diag' = [diag EXCEPT ![p] = @ \/ how = "aborted"]
    /\ fds' = fds \ ThreadsOf(p)
    /\ lock' = IF lock = p THEN 0 ELSE lock
    /\ UNCHANGED <<escVars, recVars, linkVars, statVars, initVars, numVars, argVars>>

\* safeAssertFail, and the writeError + abort() pairs: diagnostic, then abort.
Aborts(t, what) ==
    Ends(t, [th[t] EXCEPT !.pc = "aborted", !.hist = Append(@, what),
                          !.errno = IF what[2] \in {"ok", "short"} THEN @ ELSE what[2]],
         "aborted")

Did(r, what) == [r EXCEPT !.hist = Append(@, what)]

\* An entry point is called: the arguments are marshalled, the wrapper calls
\* logExecution, which returns at once when the log path is empty and else
\* enters openLogFile.
Call(t) ==
    /\ Running(t) /\ th[t].pc = "idle" /\ prog[t] # <<>>
    /\ LET c == Head(prog[t])
           r == [IdleThread EXCEPT !.call = c, !.w = EntryPoint(c),
                                   !.writer = 10 * t + Len(prog[t])] IN
       IF logExecutionSkips(g_logFileName[ProcOf[t]])
       THEN Goes(t, [r EXCEPT !.pc = "real", !.errno = th[t].errno])
       ELSE Goes(t, [r EXCEPT !.pc = "open"])
    /\ prog' = [prog EXCEPT ![t] = Tail(@)]
    /\ UNCHANGED <<g_logFileName, logFile, logExists, lock, fds>>

\* openLogFile: open(O_WRONLY | O_APPEND | O_CREAT | O_CLOEXEC) succeeds.
OpenOk(t) ==
    /\ Running(t) /\ th[t].pc = "open"
    /\ Goes(t, Did([th[t] EXCEPT !.pc = "lock", !.lf.fd = FdOf(t)], <<"open", "ok">>))
    /\ fds' = fds \cup {t}
    /\ logExists' = TRUE
    /\ UNCHANGED <<g_logFileName, prog, logFile, lock>>

\* EINTR_LOOP: the call failed with EINTR and is made again.
OpenEintr(t) ==
    /\ Running(t) /\ th[t].pc = "open"
    /\ Goes(t, [th[t] EXCEPT !.errno = "EINTR"])
    /\ UNCHANGED <<g_logFileName, prog, logFile, logExists, lock, fds>>

OpenFail(t) ==
    /\ Running(t) /\ th[t].pc = "open"
    /\ Aborts(t, <<"open", "EACCES">>)
    /\ UNCHANGED <<g_logFileName, prog, logFile, logExists>>

\* openLogFile: fcntl(F_SETLKW) is granted (no other process holds the lock);
\* logExecution writes "exec\n" and enters writePid(getppid()).
LockOk(t) ==
    /\ Running(t) /\ th[t].pc = "lock"
    /\ LockGranted(openLogFileLock, lock, ProcOf[t])
    /\ lock' = ProcOf[t]
    /\ Goes(t, Written(Did([th[t] EXCEPT !.pc = "stat_open", !.pid = HostPpid],
                           <<"lock", "ok">>),
                       ExecLine \o writePidHead(HostPpid)))
    /\ UNCHANGED <<g_logFileName, prog, logFile, logExists, fds>>

LockEintr(t) ==
    /\ Running(t) /\ th[t].pc = "lock"
    /\ Goes(t, [th[t] EXCEPT !.errno = "EINTR"])
    /\ UNCHANGED <<g_logFileName, prog, logFile, logExists, lock, fds>>

LockFail(t) ==
    /\ Running(t) /\ th[t].pc = "lock"
    /\ Aborts(t, <<"lock", "ENOLCK">>)
    /\ UNCHANGED <<g_logFileName, prog, logFile, logExists>>

\* flushLogFile is due: writeChar found the buffer full, or closeLogFile
\* has reached its flush.
FlushDue(t) ==
    /\ Running(t)
    /\ \/ th[t].pending # <<>>
       \/ /\ th[t].pc = "closeLogFile"
          /\ closeLogFileSteps[th[t].cstep] = "flush"

\* closeLogFile goes to its next step, or returns into the wrapper.
closeLogFileAdvance(r) ==
    IF r.cstep = Len(closeLogFileSteps)
    THEN [r EXCEPT !.pc = "real", !.cstep = 0]
    ELSE [r EXCEPT !.cstep = @ + 1]

\* flushLogFile: write() takes the whole buffer; the caller goes on.
FlushOk(t) ==
    /\ FlushDue(t)
    /\ logFile' = logFile \o Tagged(th[t].lf.buf, th[t].writer)
    /\ LET r == Did([th[t] EXCEPT !.lf.buf = <<>>, !.lf.bufCount = 0],
                    <<"write", "ok">>) IN
       IF th[t].pending # <<>>
       THEN Goes(t, Written(r, th[t].pending))
       ELSE Goes(t, closeLogFileAdvance(r))
    /\ UNCHANGED <<g_logFileName, prog, logExists, lock, fds>>

FlushEintr(t) ==
    /\ FlushDue(t)
    /\ Goes(t, [th[t] EXCEPT !.errno = "EINTR"])
    /\ UNCHANGED <<g_logFileName, prog, logFile, logExists, lock, fds>>

\* write() takes only n bytes of the buffer: the assertion fails.
FlushShort(t) ==
    /\ FlushDue(t)
    /\ th[t].lf.bufCount > 0
    /\ LET n == th[t].lf.bufCount \div 2 IN
          logFile' = logFile \o Tagged(SubSeq(th[t].lf.buf, 1, n), th[t].writer)
    /\ Aborts(t, <<"write", "short">>)
    /\ UNCHANGED <<g_logFileName, prog, logExists>>

FlushFail(t) ==
    /\ FlushDue(t)
    /\ Aborts(t, <<"write", "EIO">>)
    /\ UNCHANGED <<g_logFileName, prog, logFile, logExists>>

\* writePid: open("/proc/<pid>/stat") succeeds.
StatOpenOk(t) ==
    /\ Running(t) /\ th[t].pc = "stat_open" /\ th[t].pending = <<>>
    /\ Goes(t, Did([th[t] EXCEPT !.pc = "stat_read"], <<"stat_open", "ok">>))
    /\ UNCHANGED <<g_logFileName, prog, logFile, logExists, lock, fds>>

\* It returns -1, whatever errno: diagnostic and abort().
StatOpenFail(t) ==
    /\ Running(t) /\ th[t].pc = "stat_open" /\ th[t].pending = <<>>
    /\ \E e \in {"EINTR", "ENOENT"} : Aborts(t, <<"stat_open", e>>)
    /\ UNCHANGED <<g_logFileName, prog, logFile, logExists>>

\* writePid: read() returns the stat line, the start time is parsed and
\* written; after the parent's lines come the process's own, then the cwd.
StatReadOk(t) ==
    /\ Running(t) /\ th[t].pc = "stat_read" /\ th[t].pending = <<>>
    /\ LET parsed == ParsedStat[th[t].pid]
           self == getpid(ProcOf[t])
           r == Did(th[t], <<"stat_read", "ok">>) IN
       IF parsed.st # "ok"
       THEN Aborts(t, <<"parse", parsed.st>>)
       ELSE /\ IF th[t].pid = HostPpid
               THEN Goes(t, Written([r EXCEPT !.pc = "stat_open", !.pid = self],
                                    writePidTail(parsed.val) \o writePidHead(self)))
               ELSE Goes(t, Written([r EXCEPT !.pc = "readlink",
                                              !.bufSize = SymLinkFirstSize],
                                    writePidTail(parsed.val)))
            /\ UNCHANGED <<lock, fds>>
    /\ UNCHANGED <<g_logFileName, prog, logFile, logExists>>

\* read() returns -1, whatever errno: the assertion amt >= 0 fails.
StatReadFail(t) ==
    /\ Running(t) /\ th[t].pc = "stat_read" /\ th[t].pending = <<>>
    /\ \E e \in {"EINTR", "EIO"} : Aborts(t, <<"stat_read", e>>)
    /\ UNCHANGED <<g_logFileName, prog, logFile, logExists>>

\* writeSymLinkTarget: one turn of the loop.  A target that fits is written,
\* then the file name, the arguments and the blank line, up to closeLogFile.
ReadLinkOk(t) ==
    /\ Running(t) /\ th[t].pc = "readlink" /\ th[t].pending = <<>>
    /\ LET size == th[t].bufSize
           cwd == Cwd(ProcOf[t])
           amount == readlinkAmount(Len(cwd), size)
           r == Did(th[t], <<"readlink", "ok">>) IN
       IF ~symLinkLoopCond(size)
       THEN Aborts(t, <<"symlink", "toolong">>)
       ELSE /\ IF attemptFits(amount, size)
               THEN \E text \in {symLinkText(SubSeq(cwd, 1, amount))
                                     \o logExecutionTail(th[t].w.path,
                                                         th[t].w.argv)} :
                       Goes(t, Written([r EXCEPT !.pc = "closeLogFile",
                                                 !.cstep = 1], text))
               ELSE Goes(t, [r EXCEPT !.bufSize = symLinkNextSize(size)])
            /\ UNCHANGED <<lock, fds>>
    /\ UNCHANGED <<g_logFileName, prog, logFile, logExists>>

\* readlink() returns -1, whatever errno: diagnostic and abort().
ReadLinkFail(t) ==
    /\ Running(t) /\ th[t].pc = "readlink" /\ th[t].pending = <<>>
    /\ symLinkLoopCond(th[t].bufSize)
    /\ \E e \in {"EINTR", "EACCES"} : Aborts(t, <<"readlink", e>>)
    /\ UNCHANGED <<g_logFileName, prog, logFile, logExists>>

AtCloseStep(t, step) ==
    /\ Running(t) /\ th[t].pc = "closeLogFile" /\ th[t].pending = <<>>
    /\ closeLogFileSteps[th[t].cstep] = step

\* closeLogFile: fcntl(F_SETLK, F_UNLCK) drops the lock of the process.
UnlockOk(t) ==
    /\ AtCloseStep(t, "unlock")
    /\ lock' = IF lock = ProcOf[t] THEN 0 ELSE lock
    /\ Goes(t, closeLogFileAdvance(Did(th[t], <<"unlock", "ok">>)))
    /\ UNCHANGED <<g_logFileName, prog, logFile, logExists, fds>>

UnlockFail(t) ==
    /\ AtCloseStep(t, "unlock")
    /\ \E e \in {"ENOLCK"} : Aborts(t, <<"unlock", e>>)
    /\ UNCHANGED <<g_logFileName, prog, logFile, logExists>>

\* closeLogFile: close(fd), its result ignored.  The descriptor is gone
\* either way, and with it every lock the process holds on the file.
CloseFd(t) ==
    /\ AtCloseStep(t, "close")
    /\ \E e \in {"ok", "EIO"} :
          Goes(t, closeLogFileAdvance(
                      Did([th[t] EXCEPT !.errno = IF e = "ok" THEN @ ELSE e],
                          <<"close", e>>)))
    /\ fds' = fds \ {t}
    /\ lock' = IF lock = ProcOf[t] THEN 0 ELSE lock
    /\ UNCHANGED <<g_logFileName, prog, logFile, logExists>>

RealArgsEnviron(r) ==
    [fn |-> r.w.real, path |-> r.w.path, argv |-> r.w.argv, envp |-> Environ]

RealArgs(r) ==
    [fn |-> r.w.real, path |-> r.w.path, argv |-> r.w.argv, envp |-> r.w.envp]

\* wrap_execve / wrap_execvpe: the real implementation fails and returns -1;
\* the wrapper and the entry point return that to the caller.
RealFail(t) ==
    /\ Running(t) /\ th[t].pc = "real"
    /\ \E e \in {"ENOENT"} :
          Goes(t, Did([th[t] EXCEPT !.pc = "idle", !.errno = e,
                                    !.real = RealArgs(th[t]),
                                    !.result = [ret |-> -1, errno |-> e]],
                      <<"real", e>>))
    /\ UNCHANGED <<g_logFileName, prog, logFile, logExists, lock, fds>>

\* The real implementation succeeds: the process image is replaced.
RealOk(t) ==
    /\ Running(t) /\ th[t].pc = "real"
    /\ Ends(t, Did([th[t] EXCEPT !.pc = "execed", !.real = RealArgs(th[t])],
                   <<"real", "ok">>),
            "execed")
    /\ UNCHANGED <<g_logFileName, prog, logFile, logExists>>

Progs(calls, n) == UNION {[1..k -> calls] : k \in 0..n}

InitShim(names, progs) ==
    /\ g_logFileName \in names
    /\ prog \in progs
    /\ th = [t \in Threads |-> IdleThread]
    /\ pstate = [p \in Procs |-> "run"]
    /\ diag = [p \in Procs |-> FALSE]
    /\ logFile = <<>>
    /\ logExists = FALSE
    /\ lock = 0
    /\ fds = {}

IdleShim == InitShim({[p \in Procs |-> <<>>]}, {[t \in Threads |-> <<>>]})

RECURSIVE TotalLen(_, _)
TotalLen(pr, ts) ==
    IF ts = {} THEN 0
    ELSE LET t == CHOOSE u \in ts : TRUE IN Len(pr[t]) + TotalLen(pr, ts \ {t})

\* Host programs whose threads make at most MaxCalls exec calls in all, every
\* process tracing into the same log.
InitMany ==
    InitShim({[p \in Procs |-> LogPath]},
             {pr \in [Threads -> Progs(FewCalls, MaxCalls)] :
                 TotalLen(pr, Threads) <= MaxCalls})

\* A single-threaded host program that makes one exec call, of any form,
\* with tracing enabled or disabled.
InitOne ==
    InitShim({[p \in Procs |-> n] : n \in {<<>>, LogPath}},
             {[t \in Threads |-> IF t = 1 THEN <<c>> ELSE <<>>] : c \in AllCalls})

\* Single-threaded processes only: thread 2 makes no call.
InitProcs ==
    InitShim({[p \in Procs |-> LogPath]},
             {pr \in [Threads -> Progs(FewCalls, MaxCalls)] :
                 TotalLen(pr, Threads) <= MaxCalls /\ pr[2] = <<>>})

\* ------------------------------------------------------------------------
\* Input domains
\* ------------------------------------------------------------------------

MaxStrLen == 3
MaxArgs == 2

Strs(alphabet, n) == UNION {[1..k -> alphabet] : k \in 0..n}

EscAlphabet == {"a", " ", "\n", "\"", "\\"}

CwdSamples == {<<"/", "w">>, <<"/", "a", " ", "b">>, <<"/", "\n">>, <<"/", "\"">>}
FileSamples == {<<"l", "s">>, <<"a", "\n", "\n", "b">>, <<"\\">>, <<>>}
ArgSamples ==
    {<<>>, <<"a">>, <<"a", " ", "b">>, <<"\n">>, <<"a", "\"">>, <<"\\", "\n">>}

Argvs(samples, n) ==
    {NullArgv} \cup {Append(v, NULL) : v \in Strs(samples, n)}

\* ------------------------------------------------------------------------
\* writeEscapedString applied to one string
\* ------------------------------------------------------------------------

InitEsc ==
    /\ escText \in Strs(EscAlphabet, MaxStrLen)
    /\ escOut = None
    /\ IdleRec /\ IdleLink /\ IdleStat /\ IdleInit /\ IdleNum /\ IdleArg /\ IdleShim

EscapeString ==
    /\ escOut = None
    /\ escOut' = writeEscapedString(escText)
    /\ UNCHANGED <<escText, recVars, linkVars, statVars, initVars, numVars, argVars, shimVars>>

\* ------------------------------------------------------------------------
\* logExecution as a producer of bytes, no system call failing
\* ------------------------------------------------------------------------

InitRec ==
    /\ recIn \in [cwd : CwdSamples, filename : FileSamples,
                  argv : Argvs(ArgSamples, MaxArgs)]
    /\ recOut = None
    /\ IdleEsc /\ IdleLink /\ IdleStat /\ IdleInit /\ IdleNum /\ IdleArg /\ IdleShim

WriteRecord ==
    /\ recOut = None
    /\ recOut' = logExecutionText(
                    ProcStat(HostPpid), ProcStat(getpid(1)),
                    BootJiffies, HostPpid, getpid(1),
                    recIn.cwd, recIn.filename, recIn.argv)
    /\ UNCHANGED <<recIn, escVars, linkVars, statVars, initVars, numVars, argVars, shimVars>>

\* ------------------------------------------------------------------------
\* writePid on one /proc/<pid>/stat file
\* ------------------------------------------------------------------------

StatBufSize == 48

CommAlphabet == {"a", ")", " "}
StartTimes == {4, 37}
StatPid == 2

\* What the stack may hold after the terminator in procStatContent.
StaleBytes == {<<>>, <<"x", " ">>, Repeat(<<"7", " ">>, 20)}

StatFile(in) == StatContent(in.pid, in.comm, in.start)

\* read(statFd, procStatContent, sizeof(procStatContent) - 1) returning amt.
statRead(file, amt) == SubSeq(file, 1, amt)

InitStat ==
    /\ statIn \in {in \in [pid : {StatPid}, comm : Strs(CommAlphabet, MaxStrLen),
                             start : StartTimes, amt : 0..(StatBufSize - 1)] :
                       in.amt <= Len(StatFile(in))}
    /\ statOut = NoStat
    /\ IdleEsc /\ IdleRec /\ IdleLink /\ IdleInit /\ IdleNum /\ IdleArg /\ IdleShim

\* writePid: the pid line, then the start-time line or the abort.
WritePidParse ==
    /\ statOut = NoStat
    /\ \E stale \in StaleBytes :
          LET res == writePidParse(statRead(StatFile(statIn), statIn.amt),
                                   stale, BootJiffies) IN
          statOut' = [st |-> res.st, beyond |-> res.beyond,
                      lines |-> writePidHead(statIn.pid)
                                    \o (IF res.st = "ok" THEN writePidTail(res.val)
                                                          ELSE <<>>)]
    /\ UNCHANGED <<statIn, escVars, recVars, linkVars, initVars, numVars, argVars, shimVars>>

\* ------------------------------------------------------------------------
\* _init: the log path taken from the environment
\* ------------------------------------------------------------------------

LogFileNameSize == 4
MaxEnvLen == 6

\* safeStrCpy: the bytes of src and its terminator go to dest.
safeStrCpy(src) == [text |-> src, stored |-> Len(src) + 1]

initCopiesInclusive(len, size) == len <= size

\* _init: the length test that lets the value into g_logFileName.
initCopies(len, size) == len < size

\* getenv: NULL when the variable is unset.
InitEnv ==
    /\ envVar \in {NULL} \cup Strs({"/", "t"}, MaxEnvLen)
    /\ initName = NoInit
    /\ IdleEsc /\ IdleRec /\ IdleLink /\ IdleStat /\ IdleNum /\ IdleArg /\ IdleShim

\* _init up to the safeStrCpy: g_logFileName is static, all NUL before.
InitLogFileName ==
    /\ initName = NoInit
    /\ initName' =
           IF envVar # NULL /\ initCopies(safeStrLen(envVar), LogFileNameSize)
           THEN LET cp == safeStrCpy(envVar) IN
                [st |-> "set", name |-> cp.text, stored |-> cp.stored]
           ELSE [st |-> "left", name |-> <<>>, stored |-> 0]
    /\ UNCHANGED <<envVar, escVars, recVars, linkVars, statVars, numVars, argVars, shimVars>>

\* ------------------------------------------------------------------------
\* uint64ToString, then stringToUint64 on what it wrote
\* ------------------------------------------------------------------------

TempBufSize == 32

U64Samples ==
    {v \in {0, 1, 1843, 1844} \X {0, 9, 67440736, 67440737, 99999999}
              \X {0, 1, 9, 10, 9551615, 9551616, 99999999} :
        u64Less(v, U64Modulus)}

InitNum ==
    /\ numIn \in U64Samples
    /\ numStr = None
    /\ numBack = NoU64
    /\ IdleEsc /\ IdleRec /\ IdleLink /\ IdleStat /\ IdleInit /\ IdleArg /\ IdleShim

NumToString ==
    /\ numStr = None
    /\ numStr' = uint64ToStringLimbs(numIn)
    /\ UNCHANGED <<numIn, numBack, escVars, recVars, linkVars, statVars,
                   initVars, argVars, shimVars>>

NumFromString ==
    /\ numStr # None /\ numBack = NoU64
    /\ numBack' = stringToUint64Limbs(numStr, 1)
    /\ UNCHANGED <<numIn, numStr, escVars, recVars, linkVars, statVars,
                   initVars, argVars, shimVars>>

\* ------------------------------------------------------------------------
\* The argument loop of logExecution applied to two argument vectors
\* ------------------------------------------------------------------------

MaxArgLen == 2

ArgLineAlphabet == {"a", " ", "\"", "\\"}

\* Argument vectors of up to MaxArgs strings, the empty string among them,
\* and the vector that holds its terminator only.
ArgVectors ==
    {Append(v, NULL) : v \in Strs(Strs(ArgLineAlphabet, MaxArgLen), MaxArgs)}

InitArgs ==
    /\ argvA \in ArgVectors
    /\ argvB \in ArgVectors
    /\ lineA = None /\ lineB = None
    /\ IdleEsc /\ IdleRec /\ IdleLink /\ IdleStat /\ IdleInit /\ IdleNum /\ IdleShim

\* logExecution, the argument loop and the newline after it, once for each
\* of the two vectors.
WriteArgLines ==
    /\ lineA = None
    /\ lineA' = argsText(argvA) \o <<"\n">>
    /\ lineB' = argsText(argvB) \o <<"\n">>
    /\ UNCHANGED <<argvA, argvB, escVars, recVars, linkVars, statVars, initVars,
                   numVars, shimVars>>

\* ------------------------------------------------------------------------
\* Reading a record back
\* ------------------------------------------------------------------------

\* A field as a log consumer decodes it: enclosing quotes removed, then
\* backslash-backslash and backslash-quote replaced left to right.
IsQuoted(out) == Len(out) >= 2 /\ out[1] = "\"" /\ out[Len(out)] = "\""

Strip(out) == IF IsQuoted(out) THEN SubSeq(out, 2, Len(out) - 1) ELSE out

RECURSIVE Unescape(_, _)
Unescape(s, i) ==
    IF i > Len(s) THEN <<>>
    ELSE IF s[i] = "\\" /\ i < Len(s) /\ s[i + 1] \in {"\\", "\""}
         THEN <<s[i + 1]>> \o Unescape(s, i + 2)
         ELSE <<s[i]>> \o Unescape(s, i + 1)

Decode(out) == Unescape(Strip(out), 1)

RECURSIVE Plain(_, _)
Plain(s, i) ==
    IF i > Len(s) THEN <<>>
    ELSE (IF s[i] \in {"\\", "\""} THEN <<>> ELSE <<s[i]>>) \o Plain(s, i + 1)

Has(s, c) == \E i \in 1..Len(s) : s[i] = c

\* The lines of a block.  With aware = FALSE every newline ends a line; with
\* aware = TRUE a newline inside a double-quoted field does not, and a
\* backslash takes the next byte literally.
RECURSIVE Lines(_, _, _, _, _, _)
Lines(bytes, i, cur, inq, esc, aware) ==
    IF i > Len(bytes) THEN (IF cur = <<>> THEN <<>> ELSE <<cur>>)
    ELSE LET ch == bytes[i] IN
         IF aware /\ esc
         THEN Lines(bytes, i + 1, Append(cur, ch), inq, FALSE, aware)
         ELSE IF ch = "\n" /\ ~(aware /\ inq)
         THEN <<cur>> \o Lines(bytes, i + 1, <<>>, inq, FALSE, aware)
         ELSE Lines(bytes, i + 1, Append(cur, ch),
                    IF ch = "\"" THEN ~inq ELSE inq, ch = "\\", aware)

NineLineBlock(bytes, aware) ==
    LET ls == Lines(bytes, 1, <<>>, FALSE, FALSE, aware) IN
    /\ Len(bytes) > 0 /\ bytes[Len(bytes)] = "\n"
    /\ Len(ls) = 9
    /\ ls[1] = <<"e", "x", "e", "c">>
    /\ ls[9] = <<>>

ArgvHas(argv, c) ==
    \E i \in 1..Len(argv) : argv[i] # NULL /\ Has(argv[i], c)

RecHasNewline ==
    Has(recIn.cwd, "\n") \/ Has(recIn.filename, "\n") \/ ArgvHas(recIn.argv, "\n")

\* C3 as stated: whatever the cwd, filename and arguments, the bytes of one
\* logExecution call are the line exec, seven lines, and a blank line.
RecordNineRawLines == recOut # None => NineLineBlock(recOut, FALSE)

\* C3: the bytes of one logExecution call are the line exec, seven lines and
\* a blank line when a newline inside a double-quoted field is not taken as
\* a line end; when no value holds a newline they are nine raw lines.
RecordNineLines ==
    recOut # None =>
        /\ NineLineBlock(recOut, TRUE)
        /\ ~RecHasNewline => NineLineBlock(recOut, FALSE)

RecordNineLinesWitness ==
    /\ recOut # None
    /\ ArgvHas(recIn.argv, "\n")
    /\ Has(recIn.filename, "\n")

\* C4: decoding what writeEscapedString wrote gives the string back; the
\* output is quoted exactly when the string holds a space or a newline; the
\* bytes other than backslash and double quote appear unchanged, in order.
EscapeRoundTrip ==
    escOut # None =>
        /\ Decode(escOut) = escText
        /\ IsQuoted(escOut) <=> (Has(escText, " ") \/ Has(escText, "\n"))
        /\ Plain(Strip(escOut), 1) = Plain(escText, 1)

EscapeRoundTripWitness ==
    /\ escOut # None
    /\ escText = <<"\\", "\"", " ">>

\* ------------------------------------------------------------------------
\* writeSymLinkTarget on a link target of a given length
\* ------------------------------------------------------------------------

LinkLens == {1} \cup UNION {{2^k - 1, 2^k, 2^k + 1} : k \in 8..21}

InitLink ==
    /\ linkLen \in LinkLens
    /\ linkBufSize = SymLinkFirstSize
    /\ linkState = "loop"
    /\ linkWrote = -1
    /\ IdleEsc /\ IdleRec /\ IdleStat /\ IdleInit /\ IdleNum /\ IdleArg /\ IdleShim

\* One iteration of the while loop: attemptWriteSymLinkTarget(bufSize).
LinkAttempt ==
    /\ linkState = "loop"
    /\ symLinkLoopCond(linkBufSize)
    /\ LET amount == readlinkAmount(linkLen, linkBufSize) IN
       IF attemptFits(amount, linkBufSize)
       THEN /\ linkState' = "done"
            /\ linkWrote' = amount
            /\ UNCHANGED linkBufSize
       ELSE /\ linkBufSize' = symLinkNextSize(linkBufSize)
            /\ UNCHANGED <<linkState, linkWrote>>
    /\ UNCHANGED <<linkLen, escVars, recVars, statVars, initVars, numVars, argVars, shimVars>>

\* The loop ended without success: diagnostic and abort().
LinkGiveUp ==
    /\ linkState = "loop"
    /\ ~symLinkLoopCond(linkBufSize)
    /\ linkState' = "abort"
    /\ UNCHANGED <<linkLen, linkBufSize, linkWrote, escVars, recVars,
                   statVars, initVars, numVars, argVars, shimVars>>

\* The first size of 256, 512, 1024, ... strictly greater than len.
FirstFit(len) ==
    LET k == CHOOSE j \in 0..14 :
                 /\ SymLinkFirstSize * 2^j > len
                 /\ \A i \in 0..(j - 1) : SymLinkFirstSize * 2^i <= len
    IN SymLinkFirstSize * 2^k

\* C10 as stated: every target shorter than 1 MiB is written, read with the
\* first size strictly greater than its length; only 1 MiB or more aborts.
LinkFitsBelowOneMiB ==
    /\ linkState = "abort" => linkLen >= SymLinkLimit
    /\ linkState = "done" =>
           linkBufSize = FirstFit(linkLen) /\ linkWrote = linkLen

\* C10: every target shorter than 512 KiB (the last size tried) is written
\* whole, read with the first size strictly greater than its length; the
\* call aborts exactly when the target is 512 KiB or longer.
LinkFitsBelowHalfMiB ==
    /\ linkState = "abort" => 2 * linkLen >= SymLinkLimit
    /\ linkState = "done" =>
           /\ 2 * linkLen < SymLinkLimit
           /\ linkBufSize = FirstFit(linkLen)
           /\ linkWrote = linkLen
    /\ linkState = "loop" /\ ~symLinkLoopCond(linkBufSize) =>
           2 * linkLen >= SymLinkLimit

LinkFitsWitness ==
    /\ linkState = "done"
    /\ linkLen = 512
    /\ linkBufSize = 1024

\* ------------------------------------------------------------------------
\* Properties of writePid
\* ------------------------------------------------------------------------

StatRead == statRead(StatFile(statIn), statIn.amt)

\* The position of the last byte of field 22 in the stat file.
FieldsEnd(in) ==
    Len(uint64ToString(in.pid)) + 2 + Len(in.comm) + 4 + 36
        + Len(uint64ToString(in.start))

\* read() filled the buffer as far as the file and the buffer allow.
FullRead(in) == in.amt = Min(Len(StatFile(in)), StatBufSize - 1)

PidAndTick(in) ==
    uint64ToString(in.pid) \o <<"\n">>
        \o uint64ToString(BootJiffies + in.start) \o <<"\n">>

\* C13 as stated: whenever fields 1 to 22 fit in the bytes the buffer takes,
\* writePid writes the pid line and the line of boot time plus field 22.
StatFieldsFitParsed ==
    statOut # NoStat /\ FullRead(statIn)
                     /\ FieldsEnd(statIn) <= StatBufSize - 1 =>
        statOut.st = "ok" /\ statOut.lines = PidAndTick(statIn)

\* C13: when the bytes read hold fields 1 to 22 and the space that ends
\* field 22, writePid writes the pid line and the line of boot time plus
\* field 22, whatever spaces and ')' the name holds; when they end with the
\* last digit of field 22 it aborts after the pid line.
StatFieldsAndSpaceParsed ==
    statOut # NoStat =>
        /\ statIn.amt > FieldsEnd(statIn) =>
               /\ statOut.st = "ok"
               /\ statOut.lines = PidAndTick(statIn)
               /\ ~statOut.beyond
        /\ statIn.amt = FieldsEnd(statIn) =>
               /\ statOut.st = "no_end"
               /\ statOut.lines = uint64ToString(statIn.pid) \o <<"\n">>

StatFieldsAndSpaceParsedWitness ==
    /\ statOut # NoStat
    /\ statIn.comm = <<")", " ">>
    /\ statIn.start = 4
    /\ FullRead(statIn)
    /\ statOut.st = "ok"

LastParen(content) ==
    CHOOSE r \in 1..Len(content) :
        content[r] = ")" /\ \A k \in (r + 1)..Len(content) : content[k] # ")"

SpacesFrom(content, from) ==
    Cardinality({k \in from..Len(content) : content[k] = " "})

\* The bytes read have no ')' or, after the rightmost ')' and the byte that
\* follows it, fewer than the 19 spaces that lead to field 22.
StatTooShort(content) ==
    \/ ~Has(content, ")")
    \/ SpacesFrom(content, LastParen(content) + 2) < 19

\* C14: when the bytes read have no ')' or too few fields after the
\* rightmost ')', writePid aborts after the pid line, writes no start-time
\* line and reads nothing past the terminator of the buffer.
StatShortAborts ==
    statOut # NoStat /\ StatTooShort(StatRead) =>
        /\ statOut.st # "ok"
        /\ statOut.lines = uint64ToString(statIn.pid) \o <<"\n">>
        /\ ~statOut.beyond

\* ------------------------------------------------------------------------
\* Properties of _init
\* ------------------------------------------------------------------------

\* C16: _init leaves the value of BTRACE_LOG in g_logFileName when it is set
\* and shorter than the buffer; when it is unset or as long as the buffer or
\* longer the buffer stays empty, which turns logExecution off; the copy
\* stays inside the buffer.
InitTakesShortPath ==
    initName # NoInit =>
        /\ envVar # NULL /\ Len(envVar) <= LogFileNameSize - 1 =>
               initName.name = envVar /\ initName.stored = Len(envVar) + 1
        /\ envVar = NULL => initName.name = <<>> /\ initName.stored = 0
        /\ envVar # NULL /\ Len(envVar) >= LogFileNameSize =>
               initName.name = <<>> /\ initName.stored = 0
        /\ initName.stored <= LogFileNameSize
        /\ logExecutionSkips(initName.name) <=> initName.name = <<>>

InitTakesShortPathWitness ==
    /\ initName # NoInit
    /\ envVar # NULL
    /\ Len(envVar) = LogFileNameSize - 1
    /\ initName.stored = LogFileNameSize

\* ------------------------------------------------------------------------
\* Properties of uint64ToString and stringToUint64
\* ------------------------------------------------------------------------

\* C17: stringToUint64 reads back the value uint64ToString wrote, for values
\* up to 2^64 - 1; the digits and their terminator fit in tempBuf and in the
\* caller's 32 bytes, and only the value 0 is written with a leading 0.
Uint64RoundTrip ==
    /\ numBack # NoU64 => numBack = numIn
    /\ numStr # None =>
           /\ Len(numStr) >= 1
           /\ Len(numStr) + 1 <= TempBufSize
           /\ \A i \in 1..Len(numStr) : safeIsDigit(numStr[i])
           /\ safeStrLen(numStr) = Len(numStr)
           /\ numStr[1] = "0" <=> numIn = U64Zero
           /\ numIn = U64Zero => numStr = <<"0">>

Uint64RoundTripWitness ==
    /\ numIn = <<1844, 67440737, 9551615>>
    /\ numStr = <<"1", "8", "4", "4", "6", "7", "4", "4", "0", "7",
                  "3", "7", "0", "9", "5", "5", "1", "6", "1", "5">>
    /\ numBack = numIn

\* ------------------------------------------------------------------------
\* Properties of the argument line
\* ------------------------------------------------------------------------

\* C21 as stated: two argument vectors that logExecution writes as the same
\* argument line are the same vector, so the line determines the vector.
ArgLineDeterminesVector ==
    lineA # None /\ lineA = lineB => argvA = argvB

\* The two vectors the argument line cannot tell apart: the vector with no
\* argument and the vector whose only argument is the empty string.
ArgLinesSameOnlyWhenEmpty ==
    lineA # None /\ lineA = lineB /\ argvA # argvB =>
        {argvA, argvB} = {<<NULL>>, <<<<>>, NULL>>}

\* ------------------------------------------------------------------------
\* Properties of the log file session and of the wrappers
\* ------------------------------------------------------------------------

Has2(h, what) == \E i \in 1..Len(h) : h[i] = what

Events(h, name) == {i \in 1..Len(h) : h[i][1] = name}

\* The call of thread t has come back from logExecution through closeLogFile.
Closed(t) == Events(th[t].hist, "close") # {}

\* The path and argv a wrapper can hand to logExecution.
WrapInputs == {<<EntryPoint(c).path, EntryPoint(c).argv>> : c \in AllCalls}

\* The record logExecution is to write in process p for each of them.
Records ==
    [p \in Procs |->
        [w \in WrapInputs |->
            logExecutionText(ProcStat(HostPpid), ProcStat(getpid(p)), BootJiffies,
                             HostPpid, getpid(p), Cwd(p), w[1], w[2])]]

\* The record logExecution is to write for the call in the frame of thread t.
RecordOf(t) == Records[ProcOf[t]][<<th[t].w.path, th[t].w.argv>>]

RECURSIVE BytesBy(_, _)
BytesBy(file, writer) ==
    IF file = <<>> THEN <<>>
    ELSE (IF Head(file).by = writer THEN <<Head(file).ch>> ELSE <<>>)
             \o BytesBy(Tail(file), writer)

\* Once the writer changes, the earlier writer has no byte further on.
Contiguous(file) ==
    \A i \in 1..(Len(file) - 1) :
        file[i].by # file[i + 1].by =>
            \A k \in (i + 1)..Len(file) : file[k].by # file[i].by

WritesOk(t) == Cardinality({i \in 1..Len(th[t].hist) : th[t].hist[i] = <<"write", "ok">>})

\* C1: with single-threaded processes, the bytes of one record never lie
\* between bytes of another, and every call that has closed its session has
\* its whole record in the log, also when the record took several flushes.
RecordsNotInterleaved ==
    /\ Contiguous(logFile)
    /\ \A t \in Threads :
           Closed(t) => BytesBy(logFile, th[t].writer) = RecordOf(t)

RecordsNotInterleavedWitness ==
    /\ Closed(1) /\ Closed(3)
    /\ WritesOk(1) >= 2 /\ WritesOk(3) >= 2
    /\ Len(logFile) = Len(RecordOf(1)) + Len(RecordOf(3))
    /\ logFile[1].by = th[3].writer

\* The session of thread t holds its lock: openLogFile has returned and
\* closeLogFile has not released it.
SessionOpen(t) ==
    /\ th[t].pc \in {"stat_open", "stat_read", "readlink", "closeLogFile"}
    /\ Has2(th[t].hist, <<"lock", "ok">>)
    /\ ~Has2(th[t].hist, <<"unlock", "ok">>)

\* C2: from the return of openLogFile to the release by closeLogFile the
\* lock on the log file is held for the session, whatever other threads do.
LockHeldInSession ==
    \A t \in Threads : SessionOpen(t) => lock = ProcOf[t]

\* What the caller of an entry point asked for.
FirstNull(args) == CHOOSE i \in 1..Len(args) :
                       args[i] = NULL /\ \A j \in 1..(i - 1) : args[j] # NULL

IsVariadic(c) == c.fn \in {"execl", "execlp", "execle"}

CallerArgv(c) ==
    IF IsVariadic(c) THEN SubSeq(c.args, 1, FirstNull(c.args)) ELSE c.args

CallerEnvp(c) ==
    IF c.fn \in {"execve", "execvpe"} THEN c.envp
    ELSE IF c.fn = "execle" THEN c.args[FirstNull(c.args) + 1]
    ELSE Environ

CallerReal(c) ==
    IF c.fn \in {"execvp", "execvpe", "execlp"} THEN "execvpe" ELSE "execve"

Asked(c) ==
    [fn |-> CallerReal(c), path |-> c.path, argv |-> CallerArgv(c),
     envp |-> CallerEnvp(c)]

Disabled(p) == g_logFileName[p] = <<>>

\* C5: with an empty log path an intercepted call touches no file, hands the
\* caller's path, argv and envp to the real implementation and returns what
\* that returned; the log file is never created.
DisabledPassThrough ==
    /\ (\A p \in Procs : Disabled(p)) =>
           ~logExists /\ logFile = <<>> /\ fds = {} /\ lock = 0
    /\ \A t \in Threads :
           Disabled(ProcOf[t]) /\ th[t].pc \in {"real", "idle", "execed"}
                               /\ th[t].hist # <<>> =>
               /\ Len(th[t].hist) = 1
               /\ th[t].hist[1][1] = "real"
               /\ th[t].real = Asked(th[t].call)
               /\ th[t].pc = "idle" =>
                      th[t].result = [ret |-> -1, errno |-> th[t].hist[1][2]]
    /\ \A t \in Threads :
           Disabled(ProcOf[t]) =>
               th[t].pc \in {"idle", "real", "execed", "dead"}

DisabledPassThroughWitness ==
    /\ Disabled(1)
    /\ th[1].pc = "idle"
    /\ th[1].hist = << <<"real", "ENOENT">> >>
    /\ th[1].call.fn = "execle"
    /\ th[1].call.args = <<NULL, Env1>>
    /\ th[1].real.envp = Env1
    /\ th[1].result.ret = -1

Quiet ==
    \A t \in Threads : th[t].pc \in {"idle", "dead", "execed", "aborted"}

Writers == {logFile[i].by : i \in 1..Len(logFile)}

\* The writers whose record is whole in the log: all nine line ends are there.
WholeRecords ==
    {w \in Writers :
        Cardinality({i \in 1..Len(logFile) :
                        logFile[i].by = w /\ logFile[i].ch = "\n"}) = 9}

Succeeded == {p \in Procs : pstate[p] = "execed"}

NoAbort == \A t \in Threads : th[t].pc # "aborted"

\* C6: with a log path set and no call in progress (none of them cut by an
\* abort), the log holds as many records as there were calls whose real
\* implementation succeeded.
RecordsCountSuccessfulCalls ==
    Quiet /\ NoAbort /\ (\A p \in Procs : ~Disabled(p)) =>
        Cardinality(WholeRecords) = Cardinality(Succeeded)

\* The events of a call without the call of the real implementation.
FileEvents(h) == SelectSeq(h, LAMBDA e : e[1] # "real")

EndsFlushUnlockClose(h) ==
    LET f == FileEvents(h)
        n == Len(f) IN
    /\ n >= 3
    /\ f[n - 2] = <<"write", "ok">>
    /\ f[n - 1] = <<"unlock", "ok">>
    /\ f[n][1] = "close"

\* openLogFile has returned to logExecution in the call of thread t.
Opened(t) == Has2(th[t].hist, <<"lock", "ok">>)

SessionOver(t) == th[t].pc \in {"real", "idle", "execed", "aborted"}

\* C7 as stated: every session that was opened ends, also on the aborts,
\* with the buffer flushed, the lock released and the descriptor closed.
EverySessionClosedInOrder ==
    \A t \in Threads :
        Opened(t) /\ SessionOver(t) => EndsFlushUnlockClose(th[t].hist)

\* C7: a session that logExecution brings to its end ends with the buffer
\* flushed (the whole record in the file), then the lock released, then the
\* descriptor closed; a session cut by an abort closes nothing: none of its
\* steps after the failing one is run.
ReturnedSessionClosedInOrder ==
    \A t \in Threads :
        /\ Opened(t) /\ th[t].pc \in {"real", "idle", "execed"} =>
               /\ EndsFlushUnlockClose(th[t].hist)
               /\ th[t].lf.bufCount = 0 /\ th[t].pending = <<>>
               /\ Len(BytesBy(logFile, th[t].writer)) = Len(RecordOf(t))
        /\ Opened(t) /\ th[t].pc = "aborted" =>
               /\ ~Closed(t)
               /\ ~EndsFlushUnlockClose(th[t].hist)
               /\ th[t].hist[Len(th[t].hist)][2] # "ok"

ReturnedSessionClosedInOrderWitness ==
    /\ th[1].pc = "real" /\ Opened(1)
    /\ th[3].pc = "aborted" /\ Opened(3)
    /\ th[3].hist[Len(th[3].hist)] = <<"stat_read", "EIO">>

LogFailures ==
    {<<"open", "EACCES">>, <<"lock", "ENOLCK">>, <<"write", "short">>,
     <<"write", "EIO">>, <<"unlock", "ENOLCK">>, <<"close", "EIO">>}

\* C8: when open, lock, a flush, unlock or close of the log file fails other
\* than by interruption, a diagnostic is written, the process aborts and the
\* real implementation is not called.
LogFailureAborts ==
    \A t \in Threads :
        (\E i \in 1..Len(th[t].hist) : th[t].hist[i] \in LogFailures) =>
            /\ th[t].pc = "aborted"
            /\ diag[ProcOf[t]]
            /\ Events(th[t].hist, "real") = {}

\* C9: an interrupted open, read, write, fcntl or readlink is retried: no
\* interruption aborts the process.
InterruptionNeverAborts ==
    \A t \in Threads :
        th[t].pc = "aborted" => th[t].hist[Len(th[t].hist)][2] # "EINTR"

\* ------------------------------------------------------------------------
\* Properties of the variadic entry points
\* ------------------------------------------------------------------------

\* Thread t is inside an intercepted call, or has come back from one.
InCall(t) == th[t].pc \notin {"idle", "dead"} \/ th[t].hist # <<>>

CalledReal(t) == Events(th[t].hist, "real") # {}

\* The number n of arguments before the NULL sentinel.
ArgsBeforeNull(c) == FirstNull(c.args) - 1

\* C11: execle hands on the arguments up to and with the NULL sentinel
\* ([NULL] when the leading argument is NULL) and takes envp from the
\* argument right after the sentinel; the real execve gets exactly those.
ExecleEnvpAfterSentinel ==
    \A t \in Threads :
        InCall(t) /\ th[t].call.fn = "execle" =>
            LET c == th[t].call
                n == ArgsBeforeNull(c) IN
            /\ th[t].w.real = "execve"
            /\ th[t].w.argv = SubSeq(c.args, 1, n + 1)
            /\ n = 0 => th[t].w.argv = <<NULL>>
            /\ th[t].w.envp = c.args[n + 2]
            /\ CalledReal(t) =>
                   /\ th[t].real.fn = "execve"
                   /\ th[t].real.argv = SubSeq(c.args, 1, n + 1)
                   /\ th[t].real.envp = c.args[n + 2]

ExecleEnvpAfterSentinelWitness ==
    /\ ~Disabled(1)
    /\ th[1].pc = "idle" /\ CalledReal(1)
    /\ th[1].call.fn = "execle"
    /\ th[1].call.args = <<NULL, Env1>>
    /\ th[1].real.argv = <<NULL>>
    /\ th[1].real.envp = Env1

\* C12: execl and execlp hand a vector of n + 1 slots, the n arguments in
\* order and then NULL, to wrap_execve and wrap_execvpe; with a NULL leading
\* argument the vector is [NULL], and the record then ends with the file
\* name line, an empty argument line and the blank line.
VariadicVectorBuilt ==
    \A t \in Threads :
        InCall(t) /\ th[t].call.fn \in {"execl", "execlp"} =>
            LET c == th[t].call
                n == ArgsBeforeNull(c)
                written == BytesBy(logFile, th[t].writer)
                tail == writeEscapedString(c.path) \o <<"\n", "\n", "\n">> IN
            /\ th[t].w.real = (IF c.fn = "execl" THEN "execve" ELSE "execvpe")
            /\ Len(th[t].w.argv) = n + 1
            /\ \A i \in 1..n : th[t].w.argv[i] = c.args[i]
            /\ th[t].w.argv[n + 1] = NULL
            /\ th[t].w.envp = Environ
            /\ n = 0 =>
                   /\ th[t].w.argv = <<NULL>>
                   /\ argsText(th[t].w.argv) = <<>>
                   /\ th[t].pc = "aborted" => th[t].hist[Len(th[t].hist)][2] # "ok"
                   /\ Closed(t) =>
                          /\ Len(written) > Len(tail)
                          /\ SubSeq(written, Len(written) - Len(tail) + 1,
                                    Len(written)) = tail

VariadicVectorBuiltWitness ==
    /\ ~Disabled(1)
    /\ th[1].pc = "real" /\ Closed(1)
    /\ th[1].call.fn = "execlp"
    /\ th[1].call.args = <<NULL>>
    /\ th[1].w.argv = <<NULL>>

\* ------------------------------------------------------------------------
\* Properties of the vector-form wrappers
\* ------------------------------------------------------------------------

IsVector(c) == c.fn \in {"execv", "execvp", "execve", "execvpe"}

\* C15: in a vector-form wrapper the whole record is in the file and the
\* session is flushed, unlocked and closed before the real implementation is
\* called; it is called once, with the caller's path, argv and envp, and
\* when it returns the caller gets its return value and errno.
RecordThenRealOnce ==
    \A t \in Threads :
        InCall(t) /\ IsVector(th[t].call) =>
            LET c == th[t].call
                h == th[t].hist
                reals == Events(h, "real") IN
            /\ reals \subseteq {Len(h)}
            /\ th[t].pc \in {"idle", "execed"} => reals = {Len(h)}
            /\ th[t].pc = "real" => reals = {}
            /\ (th[t].pc = "real" \/ reals # {}) /\ ~Disabled(ProcOf[t]) =>
                   /\ EndsFlushUnlockClose(h)
                   /\ BytesBy(logFile, th[t].writer) = RecordOf(t)
                   /\ th[t].lf.bufCount = 0
                   /\ t \notin fds
            /\ reals # {} =>
                   /\ th[t].real.fn = CallerReal(c)
                   /\ th[t].real.path = c.path
                   /\ th[t].real.argv = c.args
                   /\ th[t].real.envp = (IF c.fn \in {"execve", "execvpe"}
                                         THEN c.envp ELSE Environ)
            /\ th[t].pc = "idle" =>
                   /\ th[t].result = [ret |-> -1, errno |-> h[Len(h)][2]]
                   /\ th[t].errno = h[Len(h)][2]

RecordThenRealOnceWitness ==
    /\ ~Disabled(1)
    /\ th[1].pc = "idle" /\ CalledReal(1)
    /\ th[1].call.fn = "execvpe"
    /\ th[1].call.args = <<ArgA, ArgB, NULL>>
    /\ Has2(th[1].hist, <<"close", "EIO">>)

\* ------------------------------------------------------------------------
\* Properties of the staging buffer
\* ------------------------------------------------------------------------

IsPrefix(a, b) == Len(a) <= Len(b) /\ SubSeq(b, 1, Len(a)) = a

\* closeLogFile has not yet done its flush in the session of thread t.
BeforeCloseFlush(t) ==
    \/ th[t].pc \in {"open", "lock", "stat_open", "stat_read", "readlink"}
    \/ /\ th[t].pc = "closeLogFile"
       /\ ~Has2(th[t].hist, <<"unlock", "ok">>)
       /\ closeLogFileSteps[th[t].cstep] = "flush"

\* C18: bufCount stays within 0..sizeof(buf) and buf holds bufCount bytes; a
\* byte waits for a flush only when the buffer is full; every flush before
\* closeLogFile writes one full buffer; no byte handed to writeChar is lost
\* or written twice: the file and the buffer hold a prefix of the record.
StagingBufferBounded ==
    \A t \in Threads :
        /\ th[t].lf.bufCount \in 0..BufSize
        /\ Len(th[t].lf.buf) = th[t].lf.bufCount
        /\ th[t].pending # <<>> => th[t].lf.bufCount = BufSize
        /\ Running(t) /\ InSession(t) =>
               LET written == BytesBy(logFile, th[t].writer) IN
               /\ IsPrefix(written \o th[t].lf.buf \o th[t].pending, RecordOf(t))
               /\ BeforeCloseFlush(t) => Len(written) = BufSize * WritesOk(t)
               /\ ~BeforeCloseFlush(t) =>
                      written = RecordOf(t) /\ th[t].lf.bufCount = 0

StagingBufferBoundedWitness ==
    /\ Running(1) /\ BeforeCloseFlush(1)
    /\ WritesOk(1) = 1
    /\ th[1].lf.bufCount \in 1..(BufSize - 1)
    /\ th[1].pending = <<>>

\* The last thing that happened in the call of thread t.
LastEvent(t) == th[t].hist[Len(th[t].hist)]

\* C20: a record no longer than the staging buffer goes to the file in one
\* write, the flush of closeLogFile; when the session aborts before
\* closeLogFile (stat file, read, readlink) the file has none of its bytes.
ShortRecordSingleWrite ==
    \A t \in Threads :
        InCall(t) /\ ~Disabled(ProcOf[t]) /\ Len(RecordOf(t)) <= BufSize =>
            LET written == BytesBy(logFile, th[t].writer) IN
            /\ BeforeCloseFlush(t) => written = <<>> /\ WritesOk(t) = 0
            /\ th[t].pc = "aborted"
                   /\ LastEvent(t)[1] \in {"open", "lock", "stat_open", "stat_read",
                                            "parse", "readlink", "symlink"} =>
                   written = <<>> /\ WritesOk(t) = 0
            /\ Closed(t) =>
                   /\ WritesOk(t) = 1
                   /\ written = RecordOf(t)
                   /\ EndsFlushUnlockClose(th[t].hist)

ShortRecordSingleWriteWitness ==
    /\ th[1].pc = "aborted"
    /\ LastEvent(1) = <<"readlink", "EACCES">>
    /\ Len(RecordOf(1)) = BufSize
    /\ th[1].lf.bufCount > 0
    /\ logFile = <<>>

\* ------------------------------------------------------------------------
\* Progress of the sessions
\* ------------------------------------------------------------------------

\* A system call of thread t other than the fcntl(F_SETLKW) comes back with
\* something else than EINTR.
Returns(t) ==
    \/ OpenOk(t) \/ OpenFail(t)
    \/ FlushOk(t) \/ FlushShort(t) \/ FlushFail(t)
    \/ StatOpenOk(t) \/ StatOpenFail(t)
    \/ StatReadOk(t) \/ StatReadFail(t)
    \/ ReadLinkOk(t) \/ ReadLinkFail(t)
    \/ UnlockOk(t) \/ UnlockFail(t)
    \/ CloseFd(t)

\* Every system call that can return does, and a lock that stays free is
\* granted to a process that waits for it.
Fair == \A t \in Threads : WF_vars(Returns(t)) /\ WF_vars(LockOk(t))

\* Thread t is inside logExecution.
Started(t) ==
    /\ Running(t)
    /\ th[t].pc \in {"open", "lock", "stat_open", "stat_read", "readlink",
                      "closeLogFile"}

\* Thread t is in fcntl(F_SETLKW) and another process holds the lock.
Blocked(t) ==
    Running(t) /\ th[t].pc = "lock" /\ lock \notin {0, ProcOf[t]}

Acquired(t) == Has2(th[t].hist, <<"lock", "ok">>)

Aborted(t) == pstate[ProcOf[t]] = "aborted"

\* Whoever holds the lock that a thread waits for is in a session it can
\* carry on with.
HolderMoves ==
    \A t \in Threads :
        Blocked(t) =>
            \E u \in ThreadsOf(lock) :
                Running(u) /\ th[u].pc \in {"stat_open", "stat_read", "readlink",
                                             "closeLogFile"}

Init ==
    /\ InitMany \/ InitOne
    /\ IdleEsc /\ IdleRec /\ IdleLink /\ IdleStat /\ IdleInit /\ IdleNum /\ IdleArg

InitSingleThreaded ==
    /\ InitProcs
    /\ IdleEsc /\ IdleRec /\ IdleLink /\ IdleStat /\ IdleInit /\ IdleNum /\ IdleArg

Next ==
    \E t \in Threads :
        \/ Call(t)
        \/ OpenOk(t) \/ OpenEintr(t) \/ OpenFail(t)
        \/ LockOk(t) \/ LockEintr(t) \/ LockFail(t)
        \/ FlushOk(t) \/ FlushEintr(t) \/ FlushShort(t) \/ FlushFail(t)
        \/ StatOpenOk(t) \/ StatOpenFail(t)
        \/ StatReadOk(t) \/ StatReadFail(t)
        \/ ReadLinkOk(t) \/ ReadLinkFail(t)
        \/ UnlockOk(t) \/ UnlockFail(t)
        \/ CloseFd(t)
        \/ RealFail(t) \/ RealOk(t)

NextEsc == EscapeString
NextRec == WriteRecord
NextLink == LinkAttempt \/ LinkGiveUp
NextStat == WritePidParse
NextEnv == InitLogFileName
NextNum == NumToString \/ NumFromString
NextArgs == WriteArgLines

Spec == Init /\ [][Next]_vars
SpecProcs == InitSingleThreaded /\ [][Next]_vars
SpecProcsFair == InitSingleThreaded /\ [][Next]_vars /\ Fair
SpecEsc == InitEsc /\ [][NextEsc]_vars
SpecRec == InitRec /\ [][NextRec]_vars
SpecLink == InitLink /\ [][NextLink]_vars
SpecStat == InitStat /\ [][NextStat]_vars
SpecEnv == InitEnv /\ [][NextEnv]_vars
SpecNum == InitNum /\ [][NextNum]_vars
SpecArgs == InitArgs /\ [][NextArgs]_vars
====
